---- MODULE Spec2Model ----
(***************************************************************************)
(* The limit order book of echenim/barter: internal/bidder (Bid, Limit,    *)
(* BookBid) and the handlers of internal/handlers that drive it.           *)
(*                                                                         *)
(* Go objects live in two heaps: B holds the Bid objects (a handle is the  *)
(* index of the object, in allocation order), L holds the Limit objects (a *)
(* Limit's handle is the handle of the Bid whose placement allocated it).  *)
(* Sizes and volumes are float64 in the source: the model counts them in   *)
(* units of the smallest spacing and rounds every sum and difference to a  *)
(* significand of MantissaBits bits (Round). Prices are only compared.     *)
(* The book is that of the one market NewExchange registers; exBids is the *)
(* Exchange's map of a user to the orders the user placed. inflight is the *)
(* PlaceMarketOrder call that holds the book's mutex part-way through its  *)
(* matching, with its local variables, if there is one. settling is the    *)
(* MARKET request that is in Exchange.matches, with the transfers it has   *)
(* still to make, if there is one.                                         *)
(***************************************************************************)
EXTENDS Integers, Sequences, FiniteSets, TLC

VARIABLES B, L, asks, bids, Trades, AskLimits, BidLimits, Orders, exBids, inflight,
          settling, result

vars == <<B, L, asks, bids, Trades, AskLimits, BidLimits, Orders, exBids, inflight, settling,
          result>>

\* The fields of BookBid together with the two heaps.
book == <<B, L, asks, bids, Trades, AskLimits, BidLimits, Orders>>

(* ------------------------------ bounds --------------------------------- *)
\* Spec: requests of any size, which the handler does not validate, on a
\* two-sided book of at most MaxOrders stored orders (market takers are
\* transient and not counted).
MaxOrders == 2
\* Spec: prices are 1..MaxPrice.
MaxPrice == 2
\* Spec: sizes of limit orders are -NegSize..MaxSize.
MaxSize == 1
NegSize == 1
\* Spec: sizes of market orders are -NegSize..MaxTaker.
MaxTaker == 2
\* SpecLevels and SpecQueue: at most DeepOrders stored orders, all on one side,
\* of sizes 1..DeepSize, taken by market orders of sizes 1..DeepTaker.
DeepOrders == 3
DeepSize == 2
DeepTaker == 3
\* SpecLevels: prices are 1..DeepPrice.
DeepPrice == 3
\* SpecQueue: timestamps are 1..MaxTime, in any order.
MaxTime == 2
\* SpecIds: NewBid draws ids from 1..MaxId.
MaxId == 2
\* SpecExchange: the users are 1..MaxUsers.
MaxUsers == 2
\* The trade log is capped: a market order that would grow it further is not taken.
MaxTrades == 3
\* Sizes and volumes are float64. The model keeps the binary format and its
\* round-to-nearest-even arithmetic, with a significand of MantissaBits bits
\* in place of 53; values are counted in units of the smallest spacing.
MantissaBits == 2

\* The nil *Limit.
NilLimit == 0
\* The nil *Bid.
NilBid == 0

(* ------------------------------ helpers -------------------------------- *)
Range(s) == {s[i] : i \in DOMAIN s}

RECURSIVE Ulp(_)
\* The spacing of the representable values at the magnitude x >= 0.
Ulp(x) == IF x < 2^MantissaBits THEN 1 ELSE 2 * Ulp(x \div 2)

\* The multiple of the spacing u nearest to x >= 0, ties to the even multiple.
RoundTo(x, u) ==
  LET q == x \div u
      r == x - q * u
  IN IF 2 * r < u THEN q * u
     ELSE IF 2 * r > u THEN (q + 1) * u
     ELSE IF q % 2 = 0 THEN q * u ELSE (q + 1) * u

\* The representable value nearest to x >= 0, ties to the even significand.
RoundAbs(x) == RoundTo(x, Ulp(x))

\* The float64 result of an operation whose exact result is x.
Round(x) == IF x >= 0 THEN RoundAbs(x) ELSE 0 - RoundAbs(0 - x)

\* x + y and x - y on float64
FAdd(x, y) == Round(x + y)

FSub(x, y) == Round(x - y)

\* delete(map, key)
MapDelete(map, key) == [k \in (DOMAIN map) \ {key} |-> map[k]]

\* map[key] = val
MapPut(map, key, val) == [k \in (DOMAIN map) \cup {key} |-> IF k = key THEN val ELSE map[k]]

\* map[key], the zero value (nil) when the key is absent
MapGet(map, key, nil) == IF key \in DOMAIN map THEN map[key] ELSE nil

(* ------------------------------- bid.go -------------------------------- *)
NewBid(bid, size, userID, id, ts) ==
  [ID |-> id, UserID |-> userID, Size |-> size, Bid |-> bid, Limit |-> NilLimit,
   Timestamp |-> ts]

IsFilled(o) == o.Size = 0

(* ------------- sort.Sort on a slice of at most 12 elements ------------- *)
\* data.Swap(i, j)
Swap(s, i, j) == [s EXCEPT ![i] = s[j], ![j] = s[i]]

RECURSIVE SiftLeft(_, _, _)
\* for j := i; j > a && data.Less(j, j-1); j-- { data.Swap(j, j-1) }
SiftLeft(s, j, key) ==
  IF j > 1 /\ key[s[j]] < key[s[j - 1]]
  THEN SiftLeft(Swap(s, j, j - 1), j - 1, key)
  ELSE s

RECURSIVE InsertionSortFrom(_, _, _)
InsertionSortFrom(s, i, key) ==
  IF i > Len(s) THEN s ELSE InsertionSortFrom(SiftLeft(s, i, key), i + 1, key)

\* sort.Sort(data) where data.Less(i, j) is key[data[i]] < key[data[j]]
SortSort(s, key) == InsertionSortFrom(s, 2, key)

(* ------------------------------ limit.go ------------------------------- *)
NewLimit(price) == [Price |-> price, Orders |-> <<>>, TotalVolume |-> 0]

\* AddOrder: o.Limit = l; l.Orders = append(l.Orders, o); l.TotalVolume += o.Size
AddOrder(m, l, o) ==
  [m EXCEPT !.B[o].Limit = l,
            !.L[l].Orders = Append(@, o),
            !.L[l].TotalVolume = FAdd(@, m.B[o].Size)]

RECURSIVE RemoveLoop(_, _, _)
\* The loop of DeleteOrder: the found element is overwritten by the last one and
\* the slice shrinks; i advances all the same.
RemoveLoop(s, o, i) ==
  IF i > Len(s) THEN s
  ELSE IF s[i] = o
       THEN RemoveLoop(SubSeq([s EXCEPT ![i] = s[Len(s)]], 1, Len(s) - 1), o, i + 1)
       ELSE RemoveLoop(s, o, i + 1)

\* Bids.Less: by Timestamp
TimestampKey(heap) == [h \in DOMAIN heap |-> heap[h].Timestamp]

DeleteOrder(m, l, o) ==
  LET removed == RemoveLoop(m.L[l].Orders, o, 1)
      B1 == [m.B EXCEPT ![o].Limit = NilLimit]
  IN [m EXCEPT !.B = B1,
               !.L[l].TotalVolume = FSub(@, m.B[o].Size),
               !.L[l].Orders = SortSort(removed, TimestampKey(B1))]

\* fillOrder(a, b): a is the resting order, b the incoming one.
fillOrder(m, l, a, b) ==
  LET bid == IF m.B[a].Bid THEN a ELSE b
      ask == IF m.B[a].Bid THEN b ELSE a
      aGE == m.B[a].Size >= m.B[b].Size
      sizeFilled == IF aGE THEN m.B[b].Size ELSE m.B[a].Size
      B1 == IF aGE
            THEN [m.B EXCEPT ![a].Size = FSub(m.B[a].Size, m.B[b].Size), ![b].Size = 0]
            ELSE [m.B EXCEPT ![b].Size = FSub(m.B[b].Size, m.B[a].Size), ![a].Size = 0]
  IN [m |-> [m EXCEPT !.B = B1],
      match |-> [Bid |-> bid, Ask |-> ask, SizeFilled |-> sizeFilled,
                 Price |-> m.L[l].Price]]

RECURSIVE DeleteAll(_, _, _)
\* The second loop of Fill: `for _, order := range ordersToDelete`
DeleteAll(m, l, ordersToDelete) ==
  IF ordersToDelete = <<>> THEN m
  ELSE DeleteAll(DeleteOrder(m, l, Head(ordersToDelete)), l, Tail(ordersToDelete))

RECURSIVE FillLoop(_, _, _, _, _, _, _)
RECURSIVE FillMatched(_, _, _, _, _, _, _)
\* The first loop of Fill: `for _, order := range l.Orders`, over the slice as it
\* was on entry; k is the position reached. The second loop follows it.
FillLoop(m, l, o, snapshot, k, matches, ordersToDelete) ==
  IF k > Len(snapshot) \/ IsFilled(m.B[o])
  THEN [m |-> DeleteAll(m, l, ordersToDelete), matches |-> matches]
  ELSE FillMatched(l, o, snapshot, k, matches, ordersToDelete,
                   fillOrder(m, l, snapshot[k], o))

\* The body of the first loop after `match := l.fillOrder(order, o)`, r being
\* what fillOrder left.
FillMatched(l, o, snapshot, k, matches, ordersToDelete, r) ==
  FillLoop([r.m EXCEPT !.L[l].TotalVolume = FSub(@, r.match.SizeFilled)],
           l, o, snapshot, k + 1, Append(matches, r.match),
           IF IsFilled(r.m.B[snapshot[k]]) THEN Append(ordersToDelete, snapshot[k])
                                           ELSE ordersToDelete)

\* Limit.Fill(o)
Fill(m, l, o) == FillLoop(m, l, o, m.L[l].Orders, 1, <<>>, <<>>)

(* --------------------------- booked_bids.go ---------------------------- *)
\* No PlaceMarketOrder call is part-way through: ob.mu is free.
NoCall == [o |-> NilBid, l |-> NilLimit]

\* A PlaceMarketOrder that returns without its deferred Unlock.
StillLocked(call) == call

\* `defer ob.mu.Unlock()` as PlaceMarketOrder returns
Unlocked(call) == NoCall

\* No request is in Exchange.matches.
NoSettle == [on |-> FALSE, transfers |-> <<>>]

\* The memory the operations work on. held is the Limit that the receiver of a
\* Fill call in progress points to.
Mem == [B |-> B, L |-> L, asks |-> asks, bids |-> bids, Trades |-> Trades,
        AskLimits |-> AskLimits, BidLimits |-> BidLimits, Orders |-> Orders,
        held |-> inflight.l]

\* Limit objects no pointer leads to are collected.
Reachable(m) ==
  Range(m.asks) \cup Range(m.bids)
    \cup {m.AskLimits[p] : p \in DOMAIN m.AskLimits}
    \cup {m.BidLimits[p] : p \in DOMAIN m.BidLimits}
    \cup {m.B[h].Limit : h \in DOMAIN m.B}
    \cup {m.held}

Collect(m) == [m EXCEPT !.L = [l \in (DOMAIN m.L) \cap Reachable(m) |-> m.L[l]]]

\* PlaceLimitOrder(price, o), o being the handle of the order in m.B
PlaceLimitOrder(m, price, o) ==
  LET isBid == m.B[o].Bid
      found == IF isBid THEN MapGet(m.BidLimits, price, NilLimit)
                        ELSE MapGet(m.AskLimits, price, NilLimit)
      limit == IF found = NilLimit THEN o ELSE found
      m1 == IF found # NilLimit THEN m
            ELSE IF isBid
                 THEN [m EXCEPT !.L = MapPut(@, limit, NewLimit(price)),
                                !.bids = Append(@, limit),
                                !.BidLimits = MapPut(@, price, limit)]
                 ELSE [m EXCEPT !.L = MapPut(@, limit, NewLimit(price)),
                                !.asks = Append(@, limit),
                                !.AskLimits = MapPut(@, price, limit)]
      m2 == [m1 EXCEPT !.Orders = MapPut(@, m.B[o].ID, o)]
  IN AddOrder(m2, limit, o)

RECURSIVE SumVolumes(_, _, _)
\* The loop of BidTotalVolume / AskTotalVolume: totalVolume += limit.TotalVolume
\* over the slice, front to back.
SumVolumes(m, slice, totalVolume) ==
  IF slice = <<>> THEN totalVolume
  ELSE SumVolumes(m, Tail(slice), FAdd(totalVolume, m.L[Head(slice)].TotalVolume))

BidTotalVolume(m) == SumVolumes(m, m.bids, 0)

AskTotalVolume(m) == SumVolumes(m, m.asks, 0)

\* ByBestAsk.Less: ascending price
ByBestAsk(m) == [l \in DOMAIN m.L |-> m.L[l].Price]

\* A Less for the bid side that puts the lowest price first.
ByWorstBid(m) == [l \in DOMAIN m.L |-> m.L[l].Price]

\* ByBestBid.Less: descending price
ByBestBid(m) == [l \in DOMAIN m.L |-> 0 - m.L[l].Price]

\* An Asks() that returns ob.asks in the order in which the levels were created.
AsksUnsorted(m) == m

\* Asks(): sorts ob.asks in place and returns it
AsksSorted(m) == [m EXCEPT !.asks = SortSort(@, ByBestAsk(m))]

\* Bids(): sorts ob.bids in place and returns it
BidsSorted(m) == [m EXCEPT !.bids = SortSort(@, ByBestBid(m))]

RECURSIVE ClearLoop(_, _, _, _)
\* The loop of clearLimit on the backing array arr of a slice of length n:
\* the found element is overwritten by the slice's last one and the slice shrinks.
ClearLoop(arr, n, l, i) ==
  IF i > n THEN [arr |-> arr, n |-> n]
  ELSE IF arr[i] = l
       THEN ClearLoop([arr EXCEPT ![i] = arr[n]], n - 1, l, i + 1)
       ELSE ClearLoop(arr, n, l, i + 1)

\* A clearLimit that takes the level off the slice and leaves its key in the map.
clearLimitKeepsKey(m, bid, l, arr) ==
  LET r == ClearLoop(arr, Len(IF bid THEN m.bids ELSE m.asks), l, 1)
      live == SubSeq(r.arr, 1, r.n)
  IN [m |-> IF bid THEN [m EXCEPT !.bids = live] ELSE [m EXCEPT !.asks = live],
      arr |-> r.arr]

\* clearLimit(bid, l). arr is the backing array of the side's slice: the slice
\* is its prefix, and a caller that ranges over the array sees the writes.
clearLimit(m, bid, l, arr) ==
  LET r == ClearLoop(arr, Len(IF bid THEN m.bids ELSE m.asks), l, 1)
      live == SubSeq(r.arr, 1, r.n)
  IN [m |-> IF bid
            THEN [m EXCEPT !.BidLimits = MapDelete(@, m.L[l].Price), !.bids = live]
            ELSE [m EXCEPT !.AskLimits = MapDelete(@, m.L[l].Price), !.asks = live],
      arr |-> r.arr]

RECURSIVE MatchLoop(_, _, _, _)
RECURSIVE MatchFilled(_, _, _, _, _)
\* `for _, limit := range ob.Asks()` (or ob.Bids()): the range reads the k-th
\* element of the backing array c.arr, whose length was fixed on entry.
MatchLoop(c, o, k, matches) ==
  IF k > Len(c.arr) THEN [m |-> c.m, matches |-> matches]
  ELSE MatchFilled(c.arr, o, k, matches, Fill(c.m, c.arr[k], o))

\* A loop body that leaves an emptied level on its side.
MatchFilledKeepsLevel(arr, o, k, matches, f) ==
  MatchLoop([m |-> f.m, arr |-> arr], o, k + 1, matches \o f.matches)

\* The body of the loop after `limitMatches := limit.Fill(o)`, f being what
\* Fill left: an emptied level is cleared.
MatchFilled(arr, o, k, matches, f) ==
  MatchLoop(IF Len(f.m.L[arr[k]].Orders) = 0
            THEN clearLimit(f.m, ~f.m.B[o].Bid, arr[k], arr)
            ELSE [m |-> f.m, arr |-> arr],
            o, k + 1, matches \o f.matches)

RECURSIVE AppendTrades(_, _, _)
\* `for _, match := range matches { ob.Trades = append(ob.Trades, trade) }`
AppendTrades(trades, matches, bid) ==
  IF matches = <<>> THEN trades
  ELSE AppendTrades(
         Append(trades, [Price |-> Head(matches).Price,
                         Size |-> Head(matches).SizeFilled, Bid |-> bid]),
         Tail(matches), bid)

\* A PlaceMarketOrder that matches without its liquidity check.
NoVolumeCheck(m, o) == FALSE

\* The liquidity check of PlaceMarketOrder.
NotEnoughVolume(m, o) ==
  IF m.B[o].Bid THEN m.B[o].Size > AskTotalVolume(m)
                ELSE m.B[o].Size > BidTotalVolume(m)

\* An end of PlaceMarketOrder that starts the log anew with the trades of this order.
RecordTradesOnly(r, bid) ==
  [m |-> [r.m EXCEPT !.Trades = AppendTrades(<<>>, r.matches, bid)],
   matches |-> r.matches,
   panic |-> IF Len(r.m.Trades) + Len(r.matches) = 0 THEN "index out of range" ELSE ""]

\* The end of PlaceMarketOrder: the trades are appended and the last one of
\* the log is read. r is what the matching loop left.
RecordTrades(r, bid) ==
  [m |-> [r.m EXCEPT !.Trades = AppendTrades(@, r.matches, bid)],
   matches |-> r.matches,
   panic |-> IF Len(r.m.Trades) + Len(r.matches) = 0 THEN "index out of range" ELSE ""]

\* The matching loop of PlaceMarketOrder over the sorted opposing side of s.
MatchAll(s, o) ==
  MatchLoop([m |-> s, arr |-> IF s.B[o].Bid THEN s.asks ELSE s.bids], o, 1, <<>>)

\* PlaceMarketOrder(o), o being the handle of the order in m.B. A panic
\* unwinds through the deferred Unlock and keeps what was written before it.
PlaceMarketOrder(m, o) ==
  IF NotEnoughVolume(m, o)
  THEN [m |-> m, matches |-> <<>>, panic |-> "not enough volume"]
  ELSE RecordTrades(MatchAll(IF m.B[o].Bid THEN AsksSorted(m) ELSE BidsSorted(m), o),
                    m.B[o].Bid)

\* A CancelOrder that leaves an emptied level on its side.
CancelKeepsLevel(order, d) == [d EXCEPT !.Orders = MapDelete(@, order.ID)]

\* CancelOrder after `limit.DeleteOrder(o)`, d being what DeleteOrder left and
\* order the cancelled order as it was before.
CancelDeleted(order, d) ==
  IF Len(d.L[order.Limit].Orders) = 0
  THEN clearLimit([d EXCEPT !.Orders = MapDelete(@, order.ID)], order.Bid, order.Limit,
                  IF order.Bid THEN d.bids ELSE d.asks).m
  ELSE [d EXCEPT !.Orders = MapDelete(@, order.ID)]

\* CancelOrder(o). Both o.Limit with o nil and limit.DeleteOrder with limit nil
\* dereference a nil pointer before anything is written.
CancelOrder(m, o) ==
  IF o = NilBid \/ m.B[o].Limit = NilLimit
  THEN [m |-> m, panic |-> "nil pointer dereference"]
  ELSE [m |-> CancelDeleted(m.B[o], DeleteOrder(m, m.B[o].Limit, o)), panic |-> ""]

(* ------------------------------ handlers ------------------------------- *)
\* The market NewExchange registers.
MarketETH == "ETH"

\* What the last request was and what it returned.
NoResult ==
  [op |-> "init", market |-> MarketETH, user |-> 0, bid |-> FALSE, size |-> 0,
   price |-> 0, id |-> 0, order |-> NilBid, outcome |-> "ok", panic |-> "",
   matches |-> <<>>, left |-> 0, body |-> [msg |-> ""]]

\* The orders of a user's slice that the loop of placeMarketOrder keeps.
KeepUnfilled(heap, s) == SelectSeq(s, LAMBDA h : ~IsFilled(heap[h]))

\* newOrderMap of placeMarketOrder: a user whose orders are all filled gets no key.
NewOrderMap(heap, ex) ==
  [u \in {v \in DOMAIN ex : KeepUnfilled(heap, ex[v]) # <<>>} |-> KeepUnfilled(heap, ex[u])]

Commit(m) ==
  /\ B' = m.B
  /\ L' = m.L
  /\ asks' = m.asks
  /\ bids' = m.bids
  /\ Trades' = m.Trades
  /\ AskLimits' = m.AskLimits
  /\ BidLimits' = m.BidLimits
  /\ Orders' = m.Orders

\* Exchange.PlaceOrder with Type = LIMIT on the registered market: the order is
\* placed and then appended to the user's slice of ex.bids.
PlaceLimitBy(userID, bid, price, size, id, ts) ==
  LET o == Len(B) + 1
      m0 == [Mem EXCEPT !.B = Append(@, NewBid(bid, size, userID, id, ts))]
  IN /\ inflight = NoCall
     /\ UNCHANGED <<inflight, settling>>
     /\ Commit(Collect(PlaceLimitOrder(m0, price, o)))
     /\ exBids' = MapPut(exBids, userID, Append(MapGet(exBids, userID, <<>>), o))
     /\ result' = [NoResult EXCEPT !.op = "limit", !.user = userID, !.bid = bid,
                                   !.size = size, !.price = price, !.id = id,
                                   !.order = o]

\* The LIMIT requests of one user.
PlaceLimit(bid, price, size, id, ts) == PlaceLimitBy(1, bid, price, size, id, ts)

\* The rest of a MARKET request once PlaceMarketOrder has left r: when it
\* returned, ex.bids is rebuilt without the filled orders; the taker o is
\* dropped with the request.
MarketDone(bid, size, o, r) ==
  /\ Len(r.m.Trades) <= MaxTrades
  /\ Commit(Collect([r.m EXCEPT !.B = SubSeq(@, 1, o - 1), !.held = NilLimit]))
  /\ exBids' = IF r.panic = "" THEN NewOrderMap(r.m.B, exBids) ELSE exBids
  /\ result' = [NoResult EXCEPT !.op = "market", !.bid = bid, !.size = size,
                                !.order = o, !.matches = r.matches,
                                !.left = r.m.B[o].Size, !.panic = r.panic,
                                !.outcome = IF r.panic = "" THEN "ok" ELSE "panic"]

\* Exchange.PlaceOrder with Type = MARKET. The taker is allocated after the
\* stored orders; its id and timestamp are never read by the book.
PlaceMarket(bid, size) ==
  /\ inflight = NoCall
  /\ UNCHANGED <<inflight, settling>>
  /\ MarketDone(bid, size, Len(B) + 1,
                PlaceMarketOrder([Mem EXCEPT !.B = Append(@, NewBid(bid, size, 1, Len(B) + 1, 1))],
                                 Len(B) + 1))

\* PlaceMarketOrder up to the return of the first fillOrder (limit.go:69): the
\* mutex is held, the opposing side s is sorted, the sizes of the first maker
\* and of the taker o are written, the level's TotalVolume is not yet. arr is
\* the slice the outer range iterates.
MarketBegun(bid, size, o, s, arr) ==
  /\ Len(arr) = 1
  /\ Len(s.L[arr[1]].Orders) = 1
  /\ ~IsFilled(s.B[o])
  /\ Commit(fillOrder(s, arr[1], s.L[arr[1]].Orders[1], o).m)
  /\ inflight' = [o |-> o, l |-> arr[1], bid |-> bid, size |-> size, arr |-> arr,
                  snapshot |-> s.L[arr[1]].Orders,
                  match |-> fillOrder(s, arr[1], s.L[arr[1]].Orders[1], o).match]
  /\ UNCHANGED <<exBids, settling, result>>

\* A MARKET request whose PlaceMarketOrder another goroutine overtakes after
\* the first fillOrder. The split is taken where the opposing side has one
\* level of one order: the backing arrays that the two range loops iterate
\* then stay as they are under every write of a concurrent cancel or reader.
MarketBeginBy(userID, bid, size) ==
  /\ inflight = NoCall
  /\ ~NotEnoughVolume([Mem EXCEPT !.B = Append(@, NewBid(bid, size, userID, Len(B) + 1, 1))],
                      Len(B) + 1)
  /\ IF bid
     THEN MarketBegun(bid, size, Len(B) + 1,
            AsksSorted([Mem EXCEPT !.B = Append(@, NewBid(bid, size, userID, Len(B) + 1, 1))]),
            AsksSorted(Mem).asks)
     ELSE MarketBegun(bid, size, Len(B) + 1,
            BidsSorted([Mem EXCEPT !.B = Append(@, NewBid(bid, size, userID, Len(B) + 1, 1))]),
            BidsSorted(Mem).bids)

\* The overtaken MARKET requests of one user.
MarketBegin(bid, size) == MarketBeginBy(1, bid, size)

\* The rest of the overtaken PlaceMarketOrder on the book as it is by now: the
\* rest of Fill, the rest of the matching loop, the trades, the Unlock, and
\* the rest of the request.
MarketEnd ==
  /\ inflight # NoCall
  /\ inflight' = Unlocked(inflight)
  /\ UNCHANGED settling
  /\ MarketDone(inflight.bid, inflight.size, inflight.o,
                RecordTrades(
                  MatchFilled(inflight.arr, inflight.o, 1, <<>>,
                              FillMatched(inflight.l, inflight.o, inflight.snapshot, 1,
                                          <<>>, <<>>,
                                          [m |-> Mem, match |-> inflight.match])),
                  inflight.bid))

\* The users that main registers before the server starts.
RegisteredUsers == {7, 8, 666}

\* The transfers Exchange.matches has to make for the matches of a market
\* order: from the ask's user to the bid's user, the size filled.
TransfersOf(heap, matches) ==
  [k \in DOMAIN matches |-> [from |-> heap[matches[k].Ask].UserID,
                             to |-> heap[matches[k].Bid].UserID,
                             amount |-> matches[k].SizeFilled]]

\* A MARKET request once PlaceMarketOrder has left r, up to the call of
\* Exchange.matches (handler line 330): placeMarketOrder has returned, and
\* with it the deferred Unlock of ob.mu and the Lock and Unlock of ex.mu
\* around the rebuild of ex.bids. A panic ends the request before.
MarketSettle(bid, size, o, r) ==
  /\ MarketDone(bid, size, o, r)
  /\ settling' = IF r.panic = ""
                 THEN [on |-> TRUE, transfers |-> TransfersOf(r.m.B, r.matches)]
                 ELSE NoSettle

\* A MARKET request of a user that is not overtaken inside PlaceMarketOrder,
\* up to the call of Exchange.matches.
MarketPlaced(userID, bid, size) ==
  /\ inflight = NoCall
  /\ UNCHANGED inflight
  /\ MarketSettle(bid, size, Len(B) + 1,
                  PlaceMarketOrder(
                    [Mem EXCEPT !.B = Append(@, NewBid(bid, size, userID, Len(B) + 1, 1))],
                    Len(B) + 1))

\* The rest of an overtaken PlaceMarketOrder, up to the call of Exchange.matches.
MarketEndSettle ==
  /\ inflight # NoCall
  /\ inflight' = Unlocked(inflight)
  /\ MarketSettle(inflight.bid, inflight.size, inflight.o,
                  RecordTrades(
                    MatchFilled(inflight.arr, inflight.o, 1, <<>>,
                                FillMatched(inflight.l, inflight.o, inflight.snapshot, 1,
                                            <<>>, <<>>,
                                            [m |-> Mem, match |-> inflight.match])),
                    inflight.bid))

\* One round of the loop of Exchange.matches: the two users are looked up, the
\* request ends with an error when one is not registered, and transferETH is
\* called otherwise (its result is dropped). The call goes to the Ethereum
\* client and may take any time: nothing makes this step happen.
SettleTransfer ==
  /\ settling.on
  /\ settling.transfers # <<>>
  /\ UNCHANGED <<book, exBids, inflight>>
  /\ IF Head(settling.transfers).from \in RegisteredUsers
        /\ Head(settling.transfers).to \in RegisteredUsers
     THEN /\ settling' = [settling EXCEPT !.transfers = Tail(@)]
          /\ result' = [NoResult EXCEPT !.op = "transfer",
                                        !.body = Head(settling.transfers)]
     ELSE /\ settling' = NoSettle
          /\ result' = [NoResult EXCEPT !.op = "settle", !.outcome = "error",
                                        !.body = [msg |-> "user not found"]]

\* Exchange.matches returns nil and PlaceOrder answers 200.
SettleDone ==
  /\ settling.on
  /\ settling.transfers = <<>>
  /\ UNCHANGED <<book, exBids, inflight>>
  /\ settling' = NoSettle
  /\ result' = [NoResult EXCEPT !.op = "settle"]

\* The rest of a cancel request once CancelOrder has left r.
CancelDone(id, bid, r) ==
  /\ Commit(Collect(r.m))
  /\ UNCHANGED <<exBids, inflight, settling>>
  /\ result' = [NoResult EXCEPT !.op = "cancel", !.id = id, !.order = bid,
                                !.panic = r.panic,
                                !.outcome = IF r.panic = "" THEN "ok" ELSE "panic"]

\* Exchange.CancelBid
CancelBid(id) ==
  CancelDone(id, MapGet(Orders, id, NilBid), CancelOrder(Mem, MapGet(Orders, id, NilBid)))

\* The keys of ex.bidBk.
RegisteredMarkets == {MarketETH}

\* The market symbols a request may carry: the registered one and another.
Markets == {MarketETH, "BTC"}

\* A request that calls a method of the nil *BookBid that ex.bidBk returns for an
\* unregistered market: the method dereferences it before anything is written.
NilBook(op, market, userID, bid, price, size) ==
  /\ UNCHANGED <<book, exBids, inflight, settling>>
  /\ result' = [NoResult EXCEPT !.op = op, !.market = market, !.user = userID,
                                !.bid = bid, !.price = price, !.size = size,
                                !.outcome = "panic",
                                !.panic = "nil pointer dereference"]

\* Exchange.PlaceOrder with Type = LIMIT
PlaceOrderLimit(market, userID, bid, price, size, id, ts) ==
  IF market \in RegisteredMarkets
  THEN PlaceLimitBy(userID, bid, price, size, id, ts)
  ELSE NilBook("limit", market, userID, bid, price, size)

\* Exchange.PlaceOrder with Type = MARKET
PlaceOrderMarket(market, bid, size) ==
  IF market \in RegisteredMarkets
  THEN PlaceMarket(bid, size)
  ELSE NilBook("market", market, 1, bid, 0, size)

\* md.Order as GetBook and GetOrders fill it in for the order h
OrderOf(m, h, price) ==
  [ID |-> m.B[h].ID, UserID |-> m.B[h].UserID, Price |-> price, Size |-> m.B[h].Size,
   Bid |-> m.B[h].Bid, Timestamp |-> m.B[h].Timestamp]

RECURSIVE BookOrders(_, _, _)
\* The nested loops of GetBook over the levels of a slice and their orders.
BookOrders(m, slice, acc) ==
  IF slice = <<>> THEN acc
  ELSE BookOrders(m, Tail(slice),
                  acc \o [i \in DOMAIN m.L[Head(slice)].Orders |->
                            OrderOf(m, m.L[Head(slice)].Orders[i], m.L[Head(slice)].Price)])

\* A 400 response of GetBook or GetTrades: nothing is read or written.
BadRequest(op, market, msg) ==
  /\ UNCHANGED <<book, exBids, inflight, settling>>
  /\ result' = [NoResult EXCEPT !.op = op, !.market = market, !.outcome = "error",
                                !.body = [msg |-> msg]]

\* GetBook on the registered market: the volumes are read, then Asks() and
\* Bids() sort the two slices in place; s is the book they leave.
BookRead(market, s) ==
  /\ Commit(s)
  /\ UNCHANGED <<exBids, inflight, settling>>
  /\ result' = [NoResult EXCEPT !.op = "book", !.market = market,
                                !.body = [TotalBidVolume |-> BidTotalVolume(Mem),
                                          TotalAskVolume |-> AskTotalVolume(Mem),
                                          Asks |-> BookOrders(s, s.asks, <<>>),
                                          Bids |-> BookOrders(s, s.bids, <<>>)]]

\* Exchange.GetBook
GetBook(market) ==
  IF market \in RegisteredMarkets
  THEN BookRead(market, BidsSorted(AsksSorted(Mem)))
  ELSE BadRequest("book", market, "market not found")

\* Exchange.GetTrades
GetTrades(market) ==
  IF market \in RegisteredMarkets
  THEN /\ UNCHANGED <<book, exBids, inflight, settling>>
       /\ result' = [NoResult EXCEPT !.op = "trades", !.market = market,
                                     !.body = [Trades |-> Trades]]
  ELSE BadRequest("trades", market, "bidBK not found")

\* GetBestBid and GetBestAsk on the registered market: s is the book that
\* Bids() or Asks() left and slice the sorted side. The first order of the
\* first level is indexed without a look at the level's length.
BestRead(op, market, s, slice) ==
  /\ Commit(s)
  /\ UNCHANGED <<exBids, inflight, settling>>
  /\ result' =
       IF slice = <<>>
       THEN [NoResult EXCEPT !.op = op, !.market = market,
                             !.body = [Price |-> 0, UserID |-> 0]]
       ELSE IF s.L[slice[1]].Orders = <<>>
       THEN [NoResult EXCEPT !.op = op, !.market = market, !.outcome = "panic",
                             !.panic = "index out of range"]
       ELSE [NoResult EXCEPT !.op = op, !.market = market,
                             !.body = [Price |-> s.L[slice[1]].Price,
                                       UserID |-> s.B[s.L[slice[1]].Orders[1]].UserID]]

\* Exchange.GetBestBid
GetBestBid(market) ==
  IF market \in RegisteredMarkets
  THEN BestRead("bestbid", market, BidsSorted(Mem), BidsSorted(Mem).bids)
  ELSE NilBook("bestbid", market, 0, FALSE, 0, 0)

\* Exchange.GetBestAsk
GetBestAsk(market) ==
  IF market \in RegisteredMarkets
  THEN BestRead("bestask", market, AsksSorted(Mem), AsksSorted(Mem).asks)
  ELSE NilBook("bestask", market, 0, FALSE, 0, 0)

\* The loop of GetOrders over the user's slice s of ex.bids: an order whose
\* Limit is nil is skipped.
UserOrders(s) ==
  [i \in DOMAIN SelectSeq(s, LAMBDA h : B[h].Limit # NilLimit) |->
     OrderOf(Mem, SelectSeq(s, LAMBDA h : B[h].Limit # NilLimit)[i],
             L[B[SelectSeq(s, LAMBDA h : B[h].Limit # NilLimit)[i]].Limit].Price)]

\* Exchange.GetOrders
GetOrders(userID) ==
  /\ UNCHANGED <<book, exBids, inflight, settling>>
  /\ result' = [NoResult EXCEPT
                  !.op = "orders", !.user = userID,
                  !.body = [Asks |-> SelectSeq(UserOrders(MapGet(exBids, userID, <<>>)),
                                               LAMBDA x : ~x.Bid),
                            Bids |-> SelectSeq(UserOrders(MapGet(exBids, userID, <<>>)),
                                               LAMBDA x : x.Bid)]]

\* rand.Intn(10000000) in the runs in which no number is drawn twice: the book
\* only compares ids, so a number not drawn before is named by the least one.
\* SpecIds has the other runs.
FreshId == Len(B) + 1

\* time.Now().UnixNano() of requests served one after the other.
ClockNow == Len(B) + 1

\* The ids a cancel request may carry: every id issued, and 0 for one never issued.
CancelIds == 0..Len(B)

Init ==
  /\ B = <<>>
  /\ L = <<>>
  /\ asks = <<>>
  /\ bids = <<>>
  /\ Trades = <<>>
  /\ AskLimits = <<>>
  /\ BidLimits = <<>>
  /\ Orders = <<>>
  /\ exBids = <<>>
  /\ inflight = NoCall
  /\ settling = NoSettle
  /\ result = NoResult

\* The sides a further limit order may take in a one-sided book.
SameSide == IF B = <<>> THEN BOOLEAN ELSE {B[1].Bid}

\* Requests of any size on a two-sided book.
Next ==
  \/ \E bid \in BOOLEAN, price \in 1..MaxPrice, size \in (0 - NegSize)..MaxSize :
       Len(B) < MaxOrders /\ PlaceLimit(bid, price, size, FreshId, ClockNow)
  \/ \E bid \in BOOLEAN, size \in (0 - NegSize)..MaxTaker : PlaceMarket(bid, size)
  \/ \E id \in CancelIds : CancelBid(id)

Spec == Init /\ [][Next]_vars

\* Valid requests on a one-sided book of up to DeepOrders orders over DeepPrice prices.
NextLevels ==
  \/ \E bid \in SameSide, price \in 1..DeepPrice, size \in 1..DeepSize :
       Len(B) < DeepOrders /\ PlaceLimit(bid, price, size, FreshId, ClockNow)
  \/ \E bid \in BOOLEAN, size \in 1..DeepTaker : PlaceMarket(bid, size)
  \/ \E id \in CancelIds : CancelBid(id)

SpecLevels == Init /\ [][NextLevels]_vars

\* Valid requests at one price. NewBid reads the clock before the book lock is
\* taken (handler line 318, PlaceLimitOrder line 105), so concurrent requests
\* enter the level in an order that need not be that of their timestamps, and
\* two readings of the clock may be equal.
NextQueue ==
  \/ \E bid \in SameSide, size \in 1..DeepSize, ts \in 1..MaxTime :
       Len(B) < DeepOrders /\ PlaceLimit(bid, 1, size, FreshId, ts)
  \/ \E bid \in BOOLEAN, size \in 1..DeepTaker : PlaceMarket(bid, size)
  \/ \E id \in CancelIds : CancelBid(id)

SpecQueue == Init /\ [][NextQueue]_vars

\* Sizes whose sums and differences are not all representable: one unit, the
\* largest odd significand, and the start of the binade in which the spacing is
\* four units (for float64: 1, 2^53 - 1 and 2^54).
DriftSizes == {1, 2^MantissaBits - 1, 2^(MantissaBits + 1)}

\* Valid requests at one price with sizes of different magnitudes.
NextDrift ==
  \/ \E bid \in SameSide, size \in DriftSizes :
       Len(B) < DeepOrders /\ PlaceLimit(bid, 1, size, FreshId, ClockNow)
  \/ \E bid \in BOOLEAN, size \in DriftSizes : PlaceMarket(bid, size)
  \/ \E id \in CancelIds : CancelBid(id)

SpecDrift == Init /\ [][NextDrift]_vars

\* Valid requests at one price whose ids are whatever rand.Intn returns, a
\* number drawn before included; a cancel may carry any id.
NextIds ==
  \/ \E bid \in SameSide, size \in 1..DeepSize, id \in 1..MaxId :
       Len(B) < DeepOrders /\ PlaceLimit(bid, 1, size, id, ClockNow)
  \/ \E bid \in BOOLEAN, size \in 1..DeepTaker : PlaceMarket(bid, size)
  \/ \E id \in 0..MaxId : CancelBid(id)

SpecIds == Init /\ [][NextIds]_vars

\* Requests of two users that name any market, of sizes that include the
\* unvalidated 0, with every reader of the API.
NextExchange ==
  \/ \E market \in Markets, userID \in 1..MaxUsers, bid \in BOOLEAN,
        price \in 1..MaxPrice, size \in 0..MaxSize :
       Len(B) < MaxOrders
         /\ PlaceOrderLimit(market, userID, bid, price, size, FreshId, ClockNow)
  \/ \E market \in Markets, bid \in BOOLEAN, size \in 0..MaxTaker :
       PlaceOrderMarket(market, bid, size)
  \/ \E id \in CancelIds : CancelBid(id)
  \/ \E userID \in 1..MaxUsers : GetOrders(userID)
  \/ \E market \in Markets : GetBook(market)
  \/ \E market \in Markets : GetTrades(market)
  \/ \E market \in Markets : GetBestBid(market)
  \/ \E market \in Markets : GetBestAsk(market)

SpecExchange == Init /\ [][NextExchange]_vars

\* Valid requests on the registered market served by concurrent goroutines: a
\* MARKET request runs in one step or is overtaken part-way by the requests
\* that take no lock; a LIMIT or MARKET request waits for the mutex.
NextRace ==
  \/ \E bid \in BOOLEAN, price \in 1..MaxPrice, size \in 1..MaxSize :
       Len(B) < DeepOrders /\ PlaceLimit(bid, price, size, FreshId, ClockNow)
  \/ \E bid \in BOOLEAN, size \in 1..MaxTaker : PlaceMarket(bid, size)
  \/ \E bid \in BOOLEAN, size \in 1..MaxTaker : MarketBegin(bid, size)
  \/ MarketEnd
  \/ \E id \in CancelIds : CancelBid(id)
  \/ GetBook(MarketETH)
  \/ GetTrades(MarketETH)
  \/ GetBestBid(MarketETH)
  \/ GetBestAsk(MarketETH)

SpecRace == Init /\ [][NextRace]_vars

\* The user ids of the requests of SpecSettle: one registered and one that
\* is not.
SettleUsers == {7, 9}

\* Valid requests at one price by registered and unregistered users, every
\* MARKET request followed through its settlement, one such request at a time
\* being overtaken or in settlement while limit orders and cancels go on.
NextSettle ==
  \/ \E userID \in SettleUsers, bid \in BOOLEAN, size \in 1..MaxSize :
       Len(B) < DeepOrders /\ PlaceLimitBy(userID, bid, 1, size, FreshId, ClockNow)
  \/ \E userID \in SettleUsers, bid \in BOOLEAN, size \in 1..MaxTaker :
       settling = NoSettle /\ MarketPlaced(userID, bid, size)
  \/ \E userID \in SettleUsers, bid \in BOOLEAN, size \in 1..MaxTaker :
       settling = NoSettle /\ MarketBeginBy(userID, bid, size)
  \/ MarketEndSettle
  \/ SettleTransfer
  \/ SettleDone
  \/ \E id \in CancelIds : CancelBid(id)

SpecSettle == Init /\ [][NextSettle]_vars

(* ----------------------------- properties ------------------------------ *)
\* The Limit objects of the two sides.
LevelSet == Range(asks) \cup Range(bids)

\* The order h is contained in a price level of one of the sides.
Resting(h) == \E l \in LevelSet : h \in Range(L[l].Orders)

RECURSIVE SumSizes(_, _, _)
\* The Size fields of the orders of the sequence s, added up front to back.
SumSizes(heap, s, sum) ==
  IF s = <<>> THEN sum ELSE SumSizes(heap, Tail(s), FAdd(sum, heap[Head(s)].Size))

RECURSIVE SumLevels(_, _)
\* The sums of the sizes of the orders of each level of a slice, added up front
\* to back.
SumLevels(slice, sum) ==
  IF slice = <<>> THEN sum
  ELSE SumLevels(Tail(slice), FAdd(sum, SumSizes(B, L[Head(slice)].Orders, 0)))

\* The total volume the book reports for the side a taker trades against.
OpposingVolume(bidTaker) ==
  IF bidTaker THEN AskTotalVolume(Mem) ELSE BidTotalVolume(Mem)

RECURSIVE SumFilled(_, _)
\* The SizeFilled of the first k matches, summed.
SumFilled(matches, k) ==
  IF k = 0 THEN 0 ELSE matches[k].SizeFilled + SumFilled(matches, k - 1)

MinOf(S) == CHOOSE x \in S : \A y \in S : x <= y

MaxOf(S) == CHOOSE x \in S : \A y \in S : x >= y

\* For a taker of the given side, the maker price p is better than q.
BetterFor(bidTaker, p, q) == IF bidTaker THEN p < q ELSE p > q

\* C1: after every PlaceLimitOrder the book is not crossed: a marketable limit
\* order has consumed the opposing levels it crosses, so that with both sides
\* non-empty the best bid price is strictly below the best ask price (stated
\* for books all of whose orders have a positive size).
C1_LimitOrderLeavesBookUncrossed ==
  (result.op = "limit" /\ asks # <<>> /\ bids # <<>>
     /\ \A h \in DOMAIN B : B[h].Size > 0) =>
    MaxOf({L[l].Price : l \in Range(bids)}) < MinOf({L[l].Price : l \in Range(asks)})

\* C2: a market order whose size exceeds the resting volume of the opposing
\* side (an empty side included) leaves every level, every order, the index and
\* the trade log as they were, and produces no match.
C2_InsufficientMarketOrderChangesNothing ==
  [][(result'.op = "market"
        /\ result'.size > OpposingVolume(result'.bid))
       => (UNCHANGED book /\ result'.matches = <<>>)]_vars

\* A market order was refused for lack of volume while the opposing side held some.
C2_Witness ==
  /\ result.op = "market"
  /\ result.panic = "not enough volume"
  /\ OpposingVolume(result.bid) > 0

\* C3: a market order whose size exceeds the resting volume of the opposing
\* side ends with an error value returned to the caller, not with a panic.
C3_InsufficientLiquidityIsAnError ==
  [][(result'.op = "market"
        /\ result'.size > OpposingVolume(result'.bid))
       => result'.outcome = "error"]_vars

\* C4: an order's id is a key of the index, mapped to that order, if and only
\* if the order is contained in a price level of one of the sides.
C4_IndexConsistency ==
  \A h \in DOMAIN B :
    (B[h].ID \in DOMAIN Orders /\ Orders[B[h].ID] = h) <=> Resting(h)

\* C5: every level's TotalVolume is the sum of the sizes of its orders, and
\* BidTotalVolume / AskTotalVolume are the sums of the sizes of the resting
\* bids / asks (the sums taken in the arithmetic of the sizes, in book order).
C5_VolumeIdentity ==
  /\ \A l \in LevelSet : L[l].TotalVolume = SumSizes(B, L[l].Orders, 0)
  /\ BidTotalVolume(Mem) = SumLevels(bids, 0)
  /\ AskTotalVolume(Mem) = SumLevels(asks, 0)

\* C6: the matches of a market order that passed the liquidity check run from
\* the best price outwards (ascending for a buy, descending for a sell), and no
\* level left on the opposing side is better priced than a level that was matched.
C6_PricePriority ==
  (result.op = "market" /\ result.panic # "not enough volume") =>
    /\ \A i, j \in DOMAIN result.matches :
         i < j => ~BetterFor(result.bid, result.matches[j].Price, result.matches[i].Price)
    /\ \A l \in Range(IF result.bid THEN asks ELSE bids), k \in DOMAIN result.matches :
         ~BetterFor(result.bid, L[l].Price, result.matches[k].Price)

\* One market order consumed three price levels, removing emptied ones on its way.
C6_Witness ==
  /\ result.op = "market"
  /\ result.outcome = "ok"
  /\ Cardinality({result.matches[k].Price : k \in DOMAIN result.matches}) >= 3

\* C7: the orders of every price level stand in the order in which they were
\* inserted (Fill consumes the slice front to back); handles are allocated in
\* insertion order.
C7_FifoWithinLevel ==
  \A l \in LevelSet :
    \A i, j \in DOMAIN L[l].Orders : i < j => L[l].Orders[i] < L[l].Orders[j]

\* C8: every match of a market order fills the minimum of the maker's and the
\* taker's remaining sizes, takes exactly that from both, carries the maker's
\* level price and the bid-side order as Bid and the ask-side order as Ask, and
\* no remaining size becomes negative or grows.
C8_Conservation ==
  [][result'.op = "market" =>
       /\ \A k \in DOMAIN result'.matches :
            LET mt == result'.matches[k]
                maker == IF result'.bid THEN mt.Ask ELSE mt.Bid
                taker == IF result'.bid THEN mt.Bid ELSE mt.Ask
                takerBefore == result'.size - SumFilled(result'.matches, k - 1)
            IN /\ taker = result'.order
               /\ maker \in DOMAIN B
               /\ B[maker].Bid # result'.bid
               /\ mt.SizeFilled = MinOf({B[maker].Size, takerBefore})
               /\ B'[maker].Size = B[maker].Size - mt.SizeFilled
               /\ mt.Price = L[B[maker].Limit].Price
               /\ B[maker].Size >= 0
               /\ B'[maker].Size >= 0
               /\ B'[maker].Size <= B[maker].Size
               /\ takerBefore - mt.SizeFilled >= 0
               /\ takerBefore - mt.SizeFilled <= takerBefore
       /\ result'.left = result'.size - SumFilled(result'.matches, Len(result'.matches))]_vars

\* C9: a market order that returns normally is filled completely: its matches
\* sum to the requested size, nothing of it is left, and it is neither in a
\* price level nor in the index.
C9_MarketOrderFilledCompletely ==
  (result.op = "market" /\ result.outcome = "ok") =>
    /\ SumFilled(result.matches, Len(result.matches)) = result.size
    /\ result.left = 0
    /\ \A l \in LevelSet : result.order \notin Range(L[l].Orders)
    /\ \A id \in DOMAIN Orders : Orders[id] # result.order

\* C10: cancelling an id that is not in the index, or whose order rests in no
\* price level, yields an error (NotFound) and changes nothing.
C10_CancelOfNonRestingIsNotFound ==
  [][(result'.op = "cancel"
        /\ (result'.id \notin DOMAIN Orders \/ ~Resting(Orders[result'.id])))
       => (result'.outcome = "error" /\ UNCHANGED book)]_vars

\* C11: cancelling a resting order removes exactly that order: it leaves its
\* level and the index, the level's volume drops by the order's size, the level
\* leaves its side if and only if it became empty, every other order keeps its
\* size, its level and its index entry, and the opposite side and the trade log
\* are unchanged.
C11_CancelFrame ==
  [][(result'.op = "cancel" /\ result'.id \in DOMAIN Orders
        /\ Resting(Orders[result'.id]))
       => LET o == Orders[result'.id]
              l == B[o].Limit
              own == IF B[o].Bid THEN bids ELSE asks
              ownAfter == IF B[o].Bid THEN bids' ELSE asks'
              emptied == Range(L[l].Orders) = {o}
          IN /\ result'.outcome = "ok"
             /\ \A k \in Range(asks') \cup Range(bids') : o \notin Range(L'[k].Orders)
             /\ B'[o].Limit = NilLimit
             /\ Orders' = MapDelete(Orders, result'.id)
             /\ Range(ownAfter) = (IF emptied THEN Range(own) \ {l} ELSE Range(own))
             /\ Len(ownAfter) = Cardinality(Range(ownAfter))
             /\ ~emptied =>
                  /\ Range(L'[l].Orders) = Range(L[l].Orders) \ {o}
                  /\ Len(L'[l].Orders) = Len(L[l].Orders) - 1
                  /\ L'[l].TotalVolume = FSub(L[l].TotalVolume, B[o].Size)
             /\ \A k \in LevelSet \ {l} : L'[k] = L[k]
             /\ \A h \in DOMAIN B \ {o} : B'[h] = B[h]
             /\ IF B[o].Bid THEN asks' = asks /\ AskLimits' = AskLimits
                            ELSE bids' = bids /\ BidLimits' = BidLimits
             /\ Trades' = Trades]_vars

\* A cancel has succeeded and left two other orders resting.
C11_Witness ==
  /\ result.op = "cancel"
  /\ result.outcome = "ok"
  /\ Cardinality({h \in DOMAIN B : Resting(h)}) >= 2

\* The levels of a slice as a taker meets them: price, volume and queue of each.
LevelsView(m, slice) ==
  [i \in DOMAIN slice |-> [Price |-> m.L[slice[i]].Price,
                           TotalVolume |-> m.L[slice[i]].TotalVolume,
                           Orders |-> m.L[slice[i]].Orders]]

\* What a client can tell of a book: both sides in match order, the resting
\* orders with their sizes, the index and the trade log.
BookView(m) ==
  [asks |-> LevelsView(m, AsksSorted(m).asks),
   bids |-> LevelsView(m, BidsSorted(m).bids),
   sizes |-> [h \in {x \in DOMAIN m.B : m.B[x].Limit # NilLimit} |-> m.B[h].Size],
   Orders |-> m.Orders,
   Trades |-> m.Trades]

\* A limit order at this price would not cross the book m.
NonCrossing(m, bid, price) ==
  IF bid THEN \A l \in Range(m.asks) : price < m.L[l].Price
         ELSE \A l \in Range(m.bids) : price > m.L[l].Price

\* The book after a limit order is placed and the id it was given is cancelled.
PlacedAndCancelled(m, bid, price, size, id, ts) ==
  LET o == Len(m.B) + 1
      placed == PlaceLimitOrder([m EXCEPT !.B = Append(@, NewBid(bid, size, 1, id, ts))],
                                price, o)
  IN CancelOrder(placed, MapGet(placed.Orders, id, NilBid)).m

\* C12: from every reachable book, placing a non-crossing limit order and then
\* cancelling the id it was given restores the book: the same levels in the
\* same match order with the same volumes and queues, the same index and the
\* same trade log.
C12_RoundTrip ==
  \A bid \in BOOLEAN, size \in 1..DeepSize, ts \in 1..MaxTime :
    NonCrossing(Mem, bid, 1) =>
      BookView(PlacedAndCancelled(Mem, bid, 1, size, FreshId, ts)) = BookView(Mem)

\* C13: two orders created by NewBid have different ids, ids grow in the order
\* of creation, and no placement takes the index entry of an order that rests:
\* every resting order is indexed under its id.
C13_IdUniqueness ==
  /\ \A g, h \in DOMAIN B : g < h => B[g].ID < B[h].ID
  /\ \A h \in DOMAIN B :
       Resting(h) => (B[h].ID \in DOMAIN Orders /\ Orders[B[h].ID] = h)

\* The trades that a taker of the given side leaves for its matches, in order.
TradesOf(matches, bid) ==
  [k \in DOMAIN matches |->
     [Price |-> matches[k].Price, Size |-> matches[k].SizeFilled, Bid |-> bid]]

\* C14: the trade log is append-only and mirrors matching: every step leaves
\* the old log as a prefix of the new one, a market order appends one trade per
\* match, in match order, with the match's price and size and the taker's
\* side, and a limit order or a cancel appends nothing.
C14_TradeLogAppendOnly ==
  [][/\ Len(Trades) <= Len(Trades')
     /\ SubSeq(Trades', 1, Len(Trades)) = Trades
     /\ Trades' = Trades \o (IF result'.op = "market"
                              THEN TradesOf(result'.matches, result'.bid)
                              ELSE <<>>)]_vars

\* A market order with two matches has added its trades to a log that held one.
C14_Witness ==
  /\ result.op = "market"
  /\ Len(result.matches) >= 2
  /\ Len(Trades) > Len(result.matches)

\* C17: a PlaceOrder request with a non-positive size, LIMIT or MARKET, is
\* rejected before any state change: the request does not succeed, no order
\* enters a level or the index, no order's size and no level's volume changes,
\* and no trade is produced.
C17_NonPositiveSizeRejected ==
  [][(result'.op \in {"limit", "market"} /\ result'.size <= 0)
       => /\ result'.outcome = "error"
          /\ result'.matches = <<>>
          /\ Orders' = Orders
          /\ L' = L
          /\ asks' = asks /\ bids' = bids
          /\ \A h \in DOMAIN B : B'[h] = B[h]
          /\ Trades' = Trades]_vars

\* The prices of the levels of a slice, front to back.
PricesOf(m, slice) == [i \in DOMAIN slice |-> m.L[slice[i]].Price]

\* The book after CancelOrder of the only order of the first level of Bids().
BestBidCancelled(m) == CancelOrder(m, m.L[BidsSorted(m).bids[1]].Orders[1]).m

\* C19: Asks() returns the ask levels in strictly ascending price order and
\* Bids() the bid levels in strictly descending price order, so the first
\* element is the best level; and when the only order of the best bid level is
\* cancelled, Bids() returns the remaining levels, the next-highest first.
C19_SidesSorted ==
  /\ \A i, j \in DOMAIN asks :
       i < j => PricesOf(Mem, AsksSorted(Mem).asks)[i] < PricesOf(Mem, AsksSorted(Mem).asks)[j]
  /\ \A i, j \in DOMAIN bids :
       i < j => PricesOf(Mem, BidsSorted(Mem).bids)[i] > PricesOf(Mem, BidsSorted(Mem).bids)[j]
  /\ (bids # <<>> /\ Len(L[BidsSorted(Mem).bids[1]].Orders) = 1) =>
       PricesOf(BestBidCancelled(Mem), BidsSorted(BestBidCancelled(Mem)).bids)
         = Tail(PricesOf(Mem, BidsSorted(Mem).bids))

\* Three bid levels that were not created best first, the best holding one
\* order, whose cancel leaves two.
C19_Witness ==
  /\ Len(bids) >= 3
  /\ PricesOf(Mem, bids) # PricesOf(Mem, BidsSorted(Mem).bids)
  /\ Len(L[BidsSorted(Mem).bids[1]].Orders) = 1
  /\ Len(BestBidCancelled(Mem).bids) = 2

\* The resting orders that the user placed.
RestingOf(userID) == {h \in DOMAIN B : B[h].UserID = userID /\ Resting(h)}

\* The resting order h as a response shows it, with the price of its level.
RestingOrder(h) ==
  OrderOf(Mem, h, L[CHOOSE l \in LevelSet : h \in Range(L[l].Orders)].Price)

\* C20: the response of GetOrders for a user holds exactly the user's resting
\* orders, each once, on its side, with its remaining size: an order the user
\* placed that is in a price level is listed, and nothing else is.
C20_GetOrdersListsRestingOrders ==
  result.op = "orders" =>
    /\ \A h \in RestingOf(result.user) :
         \E i \in DOMAIN (IF B[h].Bid THEN result.body.Bids ELSE result.body.Asks) :
           (IF B[h].Bid THEN result.body.Bids ELSE result.body.Asks)[i] = RestingOrder(h)
    /\ \A i \in DOMAIN (result.body.Asks \o result.body.Bids) :
         \E h \in RestingOf(result.user) :
           (result.body.Asks \o result.body.Bids)[i] = RestingOrder(h)
    /\ Len(result.body.Asks) + Len(result.body.Bids) = Cardinality(RestingOf(result.user))

\* C18: every request that names a market that is not registered (PlaceOrder
\* LIMIT and MARKET, GetBook, GetTrades, GetBestBid, GetBestAsk) is answered
\* with an error and leaves the book and the per-user order map unchanged.
C18_UnknownMarketIsAnError ==
  [][result'.market \notin RegisteredMarkets
       => (result'.outcome = "error" /\ UNCHANGED <<book, exBids>>)]_vars

\* C15: cancels and placements on the book exclude each other: while a
\* PlaceMarketOrder holds the book's mutex, no cancel writes a price level, a
\* side slice, an order or the order index (a cancel waits for the mutex and
\* then finds a consumed order gone).
C15_CancelExcludedByLock ==
  [][(inflight # NoCall /\ inflight' # NoCall /\ result'.op = "cancel")
       => UNCHANGED book]_vars

RECURSIVE SumOrderSizes(_, _)
\* The sizes of the orders of a response, added up front to back.
SumOrderSizes(orders, sum) ==
  IF orders = <<>> THEN sum ELSE SumOrderSizes(Tail(orders), FAdd(sum, Head(orders).Size))

\* The operations that only read.
Readers == {"book", "trades", "bestbid", "bestask"}

\* C16: a placement is indivisible for readers: the book that GetBook returns
\* is not one in which a maker's size is already reduced and its level's
\* volume is not (the volumes of the response are the sums of the sizes of its
\* orders), and no reader writes a side slice while a placement is in progress.
C16_ReadersSeeNoPartialPlacement ==
  /\ [](result.op = "book" =>
         /\ result.body.TotalAskVolume = SumOrderSizes(result.body.Asks, 0)
         /\ result.body.TotalBidVolume = SumOrderSizes(result.body.Bids, 0))
  /\ [][(inflight # NoCall /\ inflight' # NoCall /\ result'.op \in Readers)
          => (asks' = asks /\ bids' = bids)]_vars

\* C21: no level of a side is empty: after every PlaceLimitOrder,
\* PlaceMarketOrder and CancelOrder each level in bids or asks holds at least
\* one order, so a level whose last order was filled or cancelled has left its
\* side by the end of the operation that emptied it.
C21_NoEmptyLevel ==
  inflight = NoCall => \A l \in LevelSet : Len(L[l].Orders) >= 1

\* A market order has filled the only order of a level, which is gone, and
\* other levels are left on that side.
C21_Witness ==
  /\ result.op = "market"
  /\ result.outcome = "ok"
  /\ result.matches # <<>>
  /\ \A k \in DOMAIN result.matches :
       B[IF result.bid THEN result.matches[k].Ask ELSE result.matches[k].Bid].Limit = NilLimit
  /\ Len(IF result.bid THEN asks ELSE bids) >= 2

\* The resting side's order of a match of the last market order.
MakerOf(match) == IF result.bid THEN match.Ask ELSE match.Bid

\* C22: with orders of positive size, no filled order rests: every order in a
\* price level has a remaining size above 0; a maker that a market order
\* filled completely is in no level and its Limit is nil when the call
\* returns; a maker it filled in part is the first order of its level.
C22_NoFilledOrderRests ==
  inflight = NoCall =>
    /\ \A l \in LevelSet : \A i \in DOMAIN L[l].Orders : B[L[l].Orders[i]].Size > 0
    /\ result.op = "market" =>
         \A k \in DOMAIN result.matches :
           IF B[MakerOf(result.matches[k])].Size = 0
           THEN /\ ~Resting(MakerOf(result.matches[k]))
                /\ B[MakerOf(result.matches[k])].Limit = NilLimit
           ELSE /\ B[MakerOf(result.matches[k])].Limit \in LevelSet
                /\ L[B[MakerOf(result.matches[k])].Limit].Orders # <<>>
                /\ L[B[MakerOf(result.matches[k])].Limit].Orders[1]
                     = MakerOf(result.matches[k])

\* The price-keyed map limits and the slice of one side name the same levels.
SameLevels(limits, slice) ==
  /\ \A p \in DOMAIN limits : limits[p] \in Range(slice) /\ L[limits[p]].Price = p
  /\ \A i \in DOMAIN slice :
       L[slice[i]].Price \in DOMAIN limits /\ limits[L[slice[i]].Price] = slice[i]
  /\ \A i, j \in DOMAIN slice : i # j => L[slice[i]].Price # L[slice[j]].Price

\* C24: after every operation the map and the slice of each side describe the
\* same levels: a price is a key of AskLimits (BidLimits) exactly if one level
\* of that price is in asks (bids), the entry is that level, and no two levels
\* of a side have the same price.
C24_LevelBookkeeping ==
  inflight = NoCall => (SameLevels(AskLimits, asks) /\ SameLevels(BidLimits, bids))

\* The cancel of the first order has removed the level that order created, and
\* the two levels left on that side stand in the slice in another order than
\* they were created in.
C24_Witness ==
  /\ result.op = "cancel"
  /\ result.outcome = "ok"
  /\ result.order = 1
  /\ 1 \notin DOMAIN L
  /\ \E s \in {asks, bids} : Len(s) >= 2 /\ s[1] > s[2]
  /\ Cardinality(DOMAIN AskLimits) + Cardinality(DOMAIN BidLimits) >= 2

\* C23: settlement never runs inside the book's critical section. While a
\* MARKET request is in Exchange.matches, with transfers still to make or not,
\* that request holds no lock: ob.mu was released by the deferred Unlock of
\* PlaceMarketOrder, and ex.mu is held only within the rebuild of ex.bids,
\* which is over before Exchange.matches is called. So no PlaceMarketOrder is
\* left overtaken with the lock held, and limit orders, market orders and
\* cancels stay possible however long a transfer takes.
C23_SettlesOutsideLock ==
  settling.on => inflight = NoCall

\* A limit order was placed while transfers of a market order were still to
\* be made.
C23_Witness ==
  /\ settling.on
  /\ settling.transfers # <<>>
  /\ result.op = "limit"
  /\ result.outcome = "ok"
  /\ Len(Trades) >= 1


\* C25: every PlaceMarketOrder call that passes the liquidity check returns
\* normally with its match list: the read of the last trade of the log is in
\* range and the request is answered. The taker sizes are those not exceeding
\* the opposing volume, size 0 and the empty trade log included. (The lock is
\* released by the deferred Unlock on every way out: no step of a request
\* that was not overtaken leaves inflight set.)
C25_CheckedMarketOrderReturns ==
  (result.op = "market" /\ result.size >= 0
      /\ result.panic # "not enough volume") =>
    /\ result.panic = ""
    /\ result.outcome = "ok"

====
